---- MODULE Spec2Model ----
(***************************************************************************)
(* Model of the concordium-rust-sdk v2 query client (src/v2/mod.rs) and of *)
(* the update-exchange-rate example's submit-then-poll workflow            *)
(* (examples/update-exchange-rate.rs).                                     *)
(*                                                                         *)
(* Bytes are natural numbers 0..255; header bytes are ASCII codes          *)
(* ('0' = 48 .. '9' = 57, 'A' = 65 .. 'F' = 70, 'a' = 97 .. 'f' = 102).     *)
(***************************************************************************)
EXTENDS Integers, Sequences, FiniteSets, TLC

\* ------------------------------------------------------------------ bounds
MaxItems == 2        \* items a server stream sends before it must end
MaxHandles == 2      \* client handles (the original and its clones)
MaxCount == 3        \* saturation point of the workflow's call counters

\* ------------------------------------------------------- program constants
HexLen == 64         \* bytes.len() == 64
HashBytes == 32      \* [0u8; 32]
ExpiryWindow == 300  \* now + 300

VARIABLES
    handles,    \* number of Client handles in existence
    call,       \* the most recent query call and the state of its stream
    pc,         \* position of main in the example
    err,        \* the error main returned with ("none" while running / Ok)
    kps,        \* key indices loaded from the --key files
    summary,    \* chain parameters: authorized key indices and threshold
    signer,     \* the constructed signer (set of key indices)
    seq_number, \* next update sequence number
    block_item, \* the built block item
    submission_id,
    srv,        \* the node's current status of the submission
    observed,   \* the status returned by the latest successful status query
    printed,    \* the last line printed by main
    sends,      \* send_block_item calls issued (saturating)
    seqQueries, \* get_next_update_sequence_numbers calls issued (saturating)
    statusQueries, \* get_block_item_status calls issued (saturating)
    failedQueries  \* get_block_item_status calls that failed (saturating)

clientVars == <<handles, call>>
mainVars == <<pc, err, kps, summary, signer, seq_number, block_item,
              submission_id, srv, observed, printed, sends, seqQueries,
              statusQueries, failedQueries>>
vars == <<handles, call, pc, err, kps, summary, signer, seq_number,
          block_item, submission_id, srv, observed, printed, sends,
          seqQueries, statusQueries, failedQueries>>

\* ======================================================================
\* Part 1: the query client (src/v2/mod.rs)
\* ======================================================================

\* Value of one hex digit, -1 for a byte that is not a hex digit.
val(c) ==
    IF c \in 48..57 THEN c - 48
    ELSE IF c \in 97..102 THEN c - 87
    ELSE IF c \in 65..70 THEN c - 55
    ELSE -1

\* The decoding loop of hex::decode_to_slice: bytes are written one at a
\* time, the first invalid digit returns the error and leaves the rest of
\* `out` as it was.
RECURSIVE decode_loop(_, _, _)
decode_loop(data, out, i) ==
    IF i = Len(out) THEN [err |-> FALSE, out |-> out]
    ELSE LET hi == val(data[2 * i + 1])
             lo == val(data[2 * i + 2])
         IN  IF hi < 0 \/ lo < 0
             THEN [err |-> TRUE, out |-> out]
             ELSE decode_loop(data, [out EXCEPT ![i + 1] = hi * 16 + lo], i + 1)

decode_to_slice(data, out) ==
    IF Len(data) % 2 # 0 THEN [err |-> TRUE, out |-> out]
    ELSE IF Len(data) \div 2 # Len(out) THEN [err |-> TRUE, out |-> out]
    ELSE decode_loop(data, out, 0)

ZeroHash == [i \in 1..HashBytes |-> 0]
NoHash == <<>>

\* Results.  RPCError::CallError(tonic::Status) is the only error kind the
\* modelled operations produce; an error is its status (code, message).
MissingMetadata == [code |-> "unknown", msg |-> "Response does not include the expected metadata."]
MissingField == [code |-> "invalid_argument", msg |-> "missing field in response"]
DecodeFailure == [code |-> "invalid_argument", msg |-> "conversion failed"]
ServerFailure == [code |-> "unavailable", msg |-> "server"]
NoStatus == [code |-> "ok", msg |-> ""]

\* Response metadata: the "blockhash" entry, if any.
NoHeader == [present |-> FALSE, bytes |-> <<>>]
SomeHeader(b) == [present |-> TRUE, bytes |-> b]

extract_metadata_keep_short(header) ==
    IF header.present
    THEN LET bytes == header.bytes
         IN  IF Len(bytes) <= HexLen
             THEN [ok |-> TRUE,
                   hash |-> decode_to_slice(bytes, ZeroHash).out,
                   status |-> NoStatus]
             ELSE [ok |-> FALSE, hash |-> NoHash, status |-> MissingMetadata]
    ELSE [ok |-> FALSE, hash |-> NoHash, status |-> MissingMetadata]

\* extract_metadata: the status built in the decode-failure branch is
\* dropped, so the branch falls through to Ok(hash.into()).
extract_metadata(header) ==
    IF header.present
    THEN LET bytes == header.bytes
         IN  IF Len(bytes) = HexLen
             THEN [ok |-> TRUE,
                   hash |-> decode_to_slice(bytes, ZeroHash).out,
                   status |-> NoStatus]
             ELSE [ok |-> FALSE, hash |-> NoHash, status |-> MissingMetadata]
    ELSE [ok |-> FALSE, hash |-> NoHash, status |-> MissingMetadata]

\* ---------------------------------------------------------------- inputs
MkHeader(len, fill, badpos, bad) ==
    [i \in 1..len |-> IF i = badpos THEN bad ELSE fill]

\* Header values a node (or a proxy in front of it) can send: empty, one
\* short, exact and one long, all-lowercase, with an upper-case digit or
\* with a non-hex byte ('g' = 103) in the first or in an inner place.
HeaderShapes == {<<0, 97>>, <<1, 70>>, <<1, 103>>, <<HashBytes + 1, 103>>}
HeaderBytes ==
    {MkHeader(len, 97, sh[1], sh[2]) :
        len \in {0, HexLen - 1, HexLen, HexLen + 1}, sh \in HeaderShapes}

Headers == {NoHeader} \cup {SomeHeader(b) : b \in HeaderBytes}

EnvelopedStreamOps == {"get_account_list", "get_module_list", "get_ancestors"}
EnvelopedOps == {"get_account_info"} \cup EnvelopedStreamOps
StreamOps == EnvelopedStreamOps \cup {"get_finalized_blocks"}

\* Wire values of the generated protobuf types: an identity and whether the
\* bytes are a well-formed encoding of the domain type.
WireIds == {1, 2}
WireValues == [id : WireIds, wf : BOOLEAN]
Some(v) == [some |-> TRUE, v |-> v]
None == [some |-> FALSE, v |-> [id |-> 0, wf |-> FALSE]]
WireBlocks == [hash : {None} \cup {Some(w) : w \in WireValues},
               height : {None, Some([id |-> 1, wf |-> TRUE])}]

ItemOk(v) == [ok |-> TRUE, v |-> v, status |-> NoStatus]
ItemErr(s) == [ok |-> FALSE, v |-> 0, status |-> s]

DomainType(op) ==
    CASE op = "get_account_info" -> "AccountInfo"
      [] op = "get_account_list" -> "AccountAddress"
      [] op = "get_module_list" -> "ModuleRef"
      [] op = "get_ancestors" -> "BlockHash"
      [] op = "get_finalized_blocks" -> "BlockHash"

\* TryFrom of a generated wire value into its domain type.
try_from(ty, w) ==
    IF w.wf THEN ItemOk([type |-> ty, id |-> w.id]) ELSE ItemErr(DecodeFailure)

\* Require::require_owned
require_owned(o) ==
    IF o.some THEN ItemOk(o.v) ELSE ItemErr(MissingField)

\* x.and_then(f)
and_then(x, ty) == IF x.ok THEN try_from(ty, x.v) ELSE x

\* The closure mapped over the finalized-blocks stream.
finalized_block_closure(x) ==
    IF x.ok
    THEN LET block_hash == and_then(require_owned(x.v.hash), "BlockHash")
             height == require_owned(x.v.height)
         IN  IF ~block_hash.ok THEN block_hash
             ELSE IF ~height.ok THEN height
             ELSE ItemOk([type |-> "FinalizedBlockInfo",
                          block_hash |-> block_hash.v,
                          height |-> height.v.id])
    ELSE x

\* The closure mapped over the stream of operation op.
stream_closure(op, x) ==
    IF op = "get_finalized_blocks"
    THEN finalized_block_closure(x)
    ELSE and_then(x, DomainType(op))

\* ------------------------------------------------------------ responses
\* What the transport hands back for one remote call: a failed call, or a
\* response with its metadata and (for the single-value call) its message.
FailedResponse ==
    [ok |-> FALSE, status |-> ServerFailure, header |-> NoHeader,
     body |-> [id |-> 1, wf |-> TRUE]]
Responses ==
    {FailedResponse} \cup
    {[ok |-> TRUE, status |-> NoStatus, header |-> hd, body |-> w] :
        hd \in Headers, w \in WireValues}
StreamResponses == {r \in Responses : r.body = [id |-> 1, wf |-> TRUE]}
Amounts == {0, 1, MaxItems + 1}

NotRun == [ok |-> FALSE, hash |-> NoHash, status |-> NoStatus]
NoValue == [type |-> "none", id |-> 0]
Failure(s) == [ok |-> FALSE, block_hash |-> NoHash, status |-> s, response |-> NoValue]
Success(h, v) == [ok |-> TRUE, block_hash |-> h, status |-> NoStatus, response |-> v]
TheStream == [type |-> "stream", id |-> 0]

NoCall ==
    [op |-> "none", handle |-> 0, amount |-> 0, header |-> NoHeader,
     received |-> FALSE, meta |-> NotRun, extracted |-> 0,
     result |-> Failure(NoStatus),
     stream |-> "none", sent |-> <<>>, yielded |-> <<>>]

\* The common body of the three enveloped streaming operations:
\*   let response = self.client.<op>(..).await?;
\*   let block_hash = extract_metadata(&response)?;
\*   let stream = response.into_inner().map(..);
\*   Ok(QueryResponse { block_hash, response: stream })
enveloped_stream(h, op, amount, resp) ==
    IF ~resp.ok
    THEN [NoCall EXCEPT !.op = op, !.handle = h, !.amount = amount,
                        !.result = Failure(resp.status)]
    ELSE LET meta == extract_metadata(resp.header)
         IN  IF ~meta.ok
             THEN [NoCall EXCEPT !.op = op, !.handle = h, !.amount = amount,
                                 !.header = resp.header, !.received = TRUE,
                                 !.meta = meta, !.extracted = 1,
                                 !.result = Failure(meta.status)]
             ELSE [NoCall EXCEPT !.op = op, !.handle = h, !.amount = amount,
                                 !.header = resp.header, !.received = TRUE,
                                 !.meta = meta, !.extracted = 1,
                                 !.result = Success(meta.hash, TheStream),
                                 !.stream = "open"]

\* #[derive(Clone)] on Client: a new handle over the same channel.
Clone ==
    /\ handles < MaxHandles
    /\ handles' = handles + 1
    /\ UNCHANGED <<call, mainVars>>

\* The caller holds one result at a time: it drops the QueryResponse (and
\* with it the stream, which cancels it) before it calls again.
Idle == call.op = "none"

DropResponse ==
    /\ call.op # "none"
    /\ call' = NoCall
    /\ UNCHANGED <<handles, mainVars>>

get_account_info(h, resp) ==
    /\ h \in 1..handles
    /\ Idle
    /\ call' =
        IF ~resp.ok
        THEN [NoCall EXCEPT !.op = "get_account_info", !.handle = h,
                            !.result = Failure(resp.status)]
        ELSE LET meta == extract_metadata(resp.header)
                 info == try_from("AccountInfo", resp.body)
                 base == [NoCall EXCEPT !.op = "get_account_info",
                                        !.handle = h,
                                        !.header = resp.header,
                                        !.received = TRUE,
                                        !.meta = meta, !.extracted = 1]
             IN  IF ~meta.ok THEN [base EXCEPT !.result = Failure(meta.status)]
                 ELSE IF ~info.ok THEN [base EXCEPT !.result = Failure(info.status)]
                 ELSE [base EXCEPT !.result = Success(meta.hash, info.v)]
    /\ UNCHANGED <<handles, mainVars>>

get_account_list(h, resp) ==
    /\ h \in 1..handles
    /\ Idle
    /\ call' = enveloped_stream(h, "get_account_list", 0, resp)
    /\ UNCHANGED <<handles, mainVars>>

get_module_list(h, resp) ==
    /\ h \in 1..handles
    /\ Idle
    /\ call' = enveloped_stream(h, "get_module_list", 0, resp)
    /\ UNCHANGED <<handles, mainVars>>

get_ancestors(h, amount, resp) ==
    /\ h \in 1..handles
    /\ Idle
    /\ call' = enveloped_stream(h, "get_ancestors", amount, resp)
    /\ UNCHANGED <<handles, mainVars>>

get_finalized_blocks(h, resp) ==
    /\ h \in 1..handles
    /\ Idle
    /\ call' =
        IF ~resp.ok
        THEN [NoCall EXCEPT !.op = "get_finalized_blocks", !.handle = h,
                            !.result = Failure(resp.status)]
        ELSE [NoCall EXCEPT !.op = "get_finalized_blocks", !.handle = h,
                            !.header = resp.header, !.received = TRUE,
                            !.result = Success(NoHash, TheStream),
                            !.stream = "open"]
    /\ UNCHANGED <<handles, mainVars>>

\* What the server side of the call's stream can produce next: the end of
\* the stream, an error status, or one more message (the ancestors stream
\* carries at most `amount` of them).
ServerItems(op) ==
    IF op = "get_finalized_blocks"
    THEN {ItemOk(w) : w \in WireBlocks}
    ELSE {ItemOk(w) : w \in WireValues}
CanSend(c) ==
    /\ c.stream = "open"
    /\ Len(c.sent) < MaxItems
    /\ c.op = "get_ancestors" => Len(c.sent) < c.amount
ServerNext(c) ==
    {[end |-> TRUE, item |-> ItemErr(NoStatus)]} \cup
    (IF CanSend(c)
     THEN {[end |-> FALSE, item |-> ItemErr(ServerFailure)]} \cup
          {[end |-> FALSE, item |-> i] : i \in ServerItems(c.op)}
     ELSE {})

StreamNextSkipErr(n) ==
    /\ call.stream \in {"open", "error"}
    /\ n \in ServerNext(call)
    /\ call' =
        IF n.end
        THEN [call EXCEPT !.stream = "done"]
        ELSE [call EXCEPT
                !.sent = Append(@, n.item),
                !.yielded = IF stream_closure(call.op, n.item).ok
                            THEN Append(@, stream_closure(call.op, n.item))
                            ELSE @,
                !.stream = IF n.item.ok THEN "open" ELSE "error"]
    /\ UNCHANGED <<handles, mainVars>>

StreamNextPrepend(n) ==
    /\ call.stream \in {"open", "error"}
    /\ n \in ServerNext(call)
    /\ call' =
        IF n.end
        THEN [call EXCEPT !.stream = "done"]
        ELSE [call EXCEPT
                !.sent = Append(@, n.item),
                !.yielded = <<stream_closure(call.op, n.item)>> \o @,
                !.stream = IF n.item.ok THEN "open" ELSE "error"]
    /\ UNCHANGED <<handles, mainVars>>

\* One poll of the stream a streaming operation returned:
\* response.into_inner().map(closure).  The transport's stream ends after
\* it has produced an error status; the mapped stream ends only with it.
StreamNext(n) ==
    /\ call.stream \in {"open", "error"}
    /\ n \in ServerNext(call)
    /\ call' =
        IF n.end
        THEN [call EXCEPT !.stream = "done"]
        ELSE [call EXCEPT
                !.sent = Append(@, n.item),
                !.yielded = Append(@, stream_closure(call.op, n.item)),
                !.stream = IF n.item.ok THEN "open" ELSE "error"]
    /\ UNCHANGED <<handles, mainVars>>

ClientInit ==
    /\ handles = 1
    /\ call = NoCall

ClientNext ==
    \/ Clone
    \/ \E h \in 1..MaxHandles, resp \in Responses : get_account_info(h, resp)
    \/ \E h \in 1..MaxHandles, resp \in StreamResponses : get_account_list(h, resp)
    \/ \E h \in 1..MaxHandles, resp \in StreamResponses : get_module_list(h, resp)
    \/ \E h \in 1..MaxHandles, amount \in Amounts, resp \in StreamResponses :
            get_ancestors(h, amount, resp)
    \/ \E h \in 1..MaxHandles, resp \in StreamResponses : get_finalized_blocks(h, resp)
    \/ \E n \in ServerNext(call) : StreamNext(n)
    \/ DropResponse

\* ======================================================================
\* Part 2: main of examples/update-exchange-rate.rs
\* ======================================================================

Blocks == {"blockA", "blockB"}
Received == [tag |-> "Received", blocks |-> {}]
Committed(bs) == [tag |-> "Committed", blocks |-> bs]
Finalized(bs) == [tag |-> "Finalized", blocks |-> bs]
NotObserved == [tag |-> "none", blocks |-> {}]
\* TransactionStatus values the node can report.
Statuses ==
    {Received} \cup {Committed(bs) : bs \in SUBSET Blocks}
               \cup {Finalized(bs) : bs \in (SUBSET Blocks) \ {{}}}

KeyIndices == 0..2
\* The key indices of the files named by --key, in command-line order.
KeyFiles ==
    {<<>>} \cup {<<k>> : k \in KeyIndices}
           \cup {<<k, l>> : k \in KeyIndices, l \in KeyIndices}
\* Authorizations for the micro_gtu_per_euro update in the last final block.
AccessStructures ==
    {[authorized |-> {0, 1}, threshold |-> 1],
     [authorized |-> {0, 1}, threshold |-> 2],
     [authorized |-> {0, 1, 2}, threshold |-> 2]}
SeqNumbers == {1, 2}
Times == {0, 1000}

NoSummary == [authorized |-> {}, threshold |-> 0]
NoSigner == [built |-> FALSE, ok |-> FALSE, keys |-> {}]
NoBlockItem ==
    [payload |-> "none", seq_number |-> 0, effective_time |-> 0,
     timeout |-> 0, signatures |-> {}]

ErrKeys == "Could not read keys from file."
ErrConnect == "transport error"
ErrParams == "Could not obtain last finalized block's chain parameters"
ErrSigner == "Invalid keys supplied."
ErrSeq == "sequence number query failed"
ErrSend == "Could not send the update instruction."
ErrStatus == "Could not query submission status."

Inc(n) == IF n < MaxCount THEN n + 1 ELSE n

\* construct_update_signer: every supplied index must be authorized, no
\* index may be supplied twice, and the threshold must be met.
construct_update_signer(access, keys) ==
    LET idx == {keys[i] : i \in 1..Len(keys)}
    IN  IF \E k \in idx : k \notin access.authorized
        THEN [built |-> TRUE, ok |-> FALSE, keys |-> {}]
        ELSE IF Cardinality(idx) # Len(keys)
        THEN [built |-> TRUE, ok |-> FALSE, keys |-> {}]
        ELSE IF Cardinality(idx) < access.threshold
        THEN [built |-> TRUE, ok |-> FALSE, keys |-> {}]
        ELSE [built |-> TRUE, ok |-> TRUE, keys |-> idx]

\* update::update(&signer, seq_number, effective_time, timeout, payload)
update(sgn, seq, effective_time, timeout, payload) ==
    [payload |-> payload, seq_number |-> seq,
     effective_time |-> effective_time, timeout |-> timeout,
     signatures |-> sgn.keys]

Fail(e) == pc' = "done" /\ err' = e

\* let kps = app.keys.iter().map(read).collect::<anyhow::Result<_>>()?;
LoadKeys(ok, files) ==
    /\ pc = "load_keys"
    /\ IF ok
       THEN kps' = files /\ pc' = "connect" /\ err' = err
       ELSE kps' = kps /\ Fail(ErrKeys)
    /\ UNCHANGED <<clientVars, summary, signer, seq_number, block_item,
                   submission_id, srv, observed, printed, sends, seqQueries,
                   statusQueries, failedQueries>>

\* let mut client = v2::Client::new(app.endpoint).await?;
Connect(ok) ==
    /\ pc = "connect"
    /\ IF ok THEN pc' = "chain_parameters" /\ err' = err ELSE Fail(ErrConnect)
    /\ UNCHANGED <<clientVars, kps, summary, signer, seq_number, block_item,
                   submission_id, srv, observed, printed, sends, seqQueries,
                   statusQueries, failedQueries>>

\* let summary = client.get_block_chain_parameters(LastFinal).await
\*     .context(..)?.response;
GetChainParameters(ok, access) ==
    /\ pc = "chain_parameters"
    /\ IF ok
       THEN summary' = access /\ pc' = "signer" /\ err' = err
       ELSE summary' = summary /\ Fail(ErrParams)
    /\ UNCHANGED <<clientVars, kps, signer, seq_number, block_item,
                   submission_id, srv, observed, printed, sends, seqQueries,
                   statusQueries, failedQueries>>

ConstructSignerUnchecked ==
    /\ pc = "signer"
    /\ signer' = construct_update_signer(summary, kps)
    /\ pc' = "seq_number"
    /\ err' = err
    /\ UNCHANGED <<clientVars, kps, summary, seq_number, block_item,
                   submission_id, srv, observed, printed, sends, seqQueries,
                   statusQueries, failedQueries>>

\* let signer = summary.common_update_keys()
\*     .construct_update_signer(.., kps).context("Invalid keys supplied.")?;
ConstructSigner ==
    /\ pc = "signer"
    /\ signer' = construct_update_signer(summary, kps)
    /\ IF signer'.ok THEN pc' = "seq_number" /\ err' = err ELSE Fail(ErrSigner)
    /\ UNCHANGED <<clientVars, kps, summary, seq_number, block_item,
                   submission_id, srv, observed, printed, sends, seqQueries,
                   statusQueries, failedQueries>>

\* let seq_number = client.get_next_update_sequence_numbers(LastFinal)
\*     .await?.response.micro_ccd_per_euro;
GetNextSequenceNumber(ok, n) ==
    /\ pc = "seq_number"
    /\ seqQueries' = Inc(seqQueries)
    /\ IF ok
       THEN seq_number' = n /\ pc' = "build" /\ err' = err
       ELSE seq_number' = seq_number /\ Fail(ErrSeq)
    /\ UNCHANGED <<clientVars, kps, summary, signer, block_item,
                   submission_id, srv, observed, printed, sends,
                   statusQueries, failedQueries>>

\* effective_time = 0; timeout = now + 300; payload = MicroGTUPerEuro(1/1);
\* block_item = update::update(..).into();
BuildBlockItem(now) ==
    /\ pc = "build"
    /\ block_item' = update(signer, seq_number, 0, now + ExpiryWindow,
                            [kind |-> "MicroGTUPerEuro", numerator |-> 1,
                             denominator |-> 1])
    /\ pc' = "send"
    /\ UNCHANGED <<clientVars, err, kps, summary, signer, seq_number,
                   submission_id, srv, observed, printed, sends, seqQueries,
                   statusQueries, failedQueries>>

SendBlockItemIgnoreError(ok) ==
    /\ pc = "send"
    /\ sends' = Inc(sends)
    /\ pc' = "tick"
    /\ err' = err
    /\ IF ok
       THEN /\ submission_id' = "tx"
            /\ srv' = Received
            /\ printed' = [line |-> "Submitted update with hash", blocks |-> {}]
       ELSE /\ UNCHANGED <<submission_id, srv, printed>>
    /\ UNCHANGED <<clientVars, kps, summary, signer, seq_number, block_item,
                   observed, seqQueries, statusQueries, failedQueries>>

\* let submission_id = client.send_block_item(&block_item).await.context(..)?;
\* println!("Submitted update with hash {}", submission_id);
SendBlockItem(ok) ==
    /\ pc = "send"
    /\ sends' = Inc(sends)
    /\ IF ok
       THEN /\ submission_id' = "tx"
            /\ srv' = Received
            /\ printed' = [line |-> "Submitted update with hash", blocks |-> {}]
            /\ pc' = "tick"
            /\ err' = err
       ELSE /\ Fail(ErrSend)
            /\ UNCHANGED <<submission_id, srv, printed>>
    /\ UNCHANGED <<clientVars, kps, summary, signer, seq_number, block_item,
                   observed, seqQueries, statusQueries, failedQueries>>

\* interval.tick().await
Tick ==
    /\ pc = "tick"
    /\ pc' = "status"
    /\ UNCHANGED <<clientVars, err, kps, summary, signer, seq_number,
                   block_item, submission_id, srv, observed, printed, sends,
                   seqQueries, statusQueries, failedQueries>>

StatusLine(st) ==
    CASE st.tag = "Finalized" ->
            [line |-> "Submission is finalized in blocks", blocks |-> st.blocks]
      [] st.tag = "Committed" ->
            [line |-> "Submission is committed to blocks", blocks |-> st.blocks]
      [] OTHER -> [line |-> "Submission is received.", blocks |-> {}]

\* The status the node answers with: the submission's current status; a
\* query for a submission that was never accepted finds nothing to report.
Answer == IF submission_id = "none" THEN Received ELSE srv

GetBlockItemStatusBreakEarly(ok) ==
    /\ pc = "status"
    /\ statusQueries' = Inc(statusQueries)
    /\ IF ok
       THEN /\ observed' = Answer
            /\ printed' = StatusLine(Answer)
            /\ pc' = IF Answer.tag \in {"Finalized", "Committed"}
                     THEN "done" ELSE "tick"
            /\ UNCHANGED <<err, failedQueries>>
       ELSE /\ failedQueries' = Inc(failedQueries)
            /\ Fail(ErrStatus)
            /\ UNCHANGED <<observed, printed>>
    /\ UNCHANGED <<clientVars, kps, summary, signer, seq_number, block_item,
                   submission_id, srv, sends, seqQueries>>

GetBlockItemStatusRetry(ok) ==
    /\ pc = "status"
    /\ statusQueries' = Inc(statusQueries)
    /\ IF ok
       THEN /\ observed' = Answer
            /\ printed' = StatusLine(Answer)
            /\ pc' = IF Answer.tag = "Finalized" THEN "done" ELSE "tick"
            /\ UNCHANGED <<err, failedQueries>>
       ELSE /\ failedQueries' = Inc(failedQueries)
            /\ pc' = "tick"
            /\ UNCHANGED <<err, observed, printed>>
    /\ UNCHANGED <<clientVars, kps, summary, signer, seq_number, block_item,
                   submission_id, srv, sends, seqQueries>>

GetBlockItemStatusDeadline(ok) ==
    /\ pc = "status"
    /\ statusQueries' = Inc(statusQueries)
    /\ IF ok
       THEN /\ observed' = Answer
            /\ printed' = StatusLine(Answer)
            /\ pc' = IF Answer.tag = "Finalized" \/ statusQueries' = MaxCount
                     THEN "done" ELSE "tick"
            /\ UNCHANGED <<err, failedQueries>>
       ELSE /\ failedQueries' = Inc(failedQueries)
            /\ Fail(ErrStatus)
            /\ UNCHANGED <<observed, printed>>
    /\ UNCHANGED <<clientVars, kps, summary, signer, seq_number, block_item,
                   submission_id, srv, sends, seqQueries>>

\* match client.get_block_item_status(&submission_id).await.context(..)? {
\*     Finalized(blocks) => { println!(..); break; }
\*     Committed(blocks) => { println!(..); }
\*     Received => { println!(..) } }
GetBlockItemStatus(ok) ==
    /\ pc = "status"
    /\ statusQueries' = Inc(statusQueries)
    /\ IF ok
       THEN /\ observed' = Answer
            /\ printed' = StatusLine(Answer)
            /\ pc' = IF Answer.tag = "Finalized" THEN "done" ELSE "tick"
            /\ UNCHANGED <<err, failedQueries>>
       ELSE /\ failedQueries' = Inc(failedQueries)
            /\ Fail(ErrStatus)
            /\ UNCHANGED <<observed, printed>>
    /\ UNCHANGED <<clientVars, kps, summary, signer, seq_number, block_item,
                   submission_id, srv, sends, seqQueries>>

\* The node: the status of an accepted submission changes over time.
NodeStep(st) ==
    /\ submission_id # "none"
    /\ st # srv
    /\ srv' = st
    /\ UNCHANGED <<clientVars, pc, err, kps, summary, signer, seq_number,
                   block_item, submission_id, observed, printed, sends,
                   seqQueries, statusQueries, failedQueries>>

MainInit ==
    /\ pc = "load_keys"
    /\ err = "none"
    /\ kps = <<>>
    /\ summary = NoSummary
    /\ signer = NoSigner
    /\ seq_number = 0
    /\ block_item = NoBlockItem
    /\ submission_id = "none"
    /\ srv = NotObserved
    /\ observed = NotObserved
    /\ printed = [line |-> "", blocks |-> {}]
    /\ sends = 0
    /\ seqQueries = 0
    /\ statusQueries = 0
    /\ failedQueries = 0

MainNext ==
    \/ \E ok \in BOOLEAN, files \in KeyFiles : LoadKeys(ok, files)
    \/ \E ok \in BOOLEAN : Connect(ok)
    \/ \E ok \in BOOLEAN, access \in AccessStructures : GetChainParameters(ok, access)
    \/ ConstructSigner
    \/ \E ok \in BOOLEAN, n \in SeqNumbers : GetNextSequenceNumber(ok, n)
    \/ \E now \in Times : BuildBlockItem(now)
    \/ \E ok \in BOOLEAN : SendBlockItem(ok)
    \/ Tick
    \/ \E ok \in BOOLEAN : GetBlockItemStatus(ok)
    \/ \E st \in Statuses : NodeStep(st)

Init == ClientInit /\ MainInit

Next == ClientNext \/ MainNext

\* The query client on its own, the example's main on its own, and main
\* under the scheduling the runtime gives it: a pending tick fires and a
\* status query that was issued completes.
ClientSpec == Init /\ [][ClientNext]_vars
MainSpec == Init /\ [][MainNext]_vars
LiveMainSpec ==
    /\ Init
    /\ [][MainNext]_vars
    /\ WF_vars(Tick)
    /\ WF_vars(\E ok \in BOOLEAN : GetBlockItemStatus(ok))
Spec == Init /\ [][Next]_vars

\* ======================================================================
\* Properties
\* ======================================================================

HexDigits == (48..57) \cup (65..70) \cup (97..102)
ValidHex(bytes) == \A i \in 1..Len(bytes) : bytes[i] \in HexDigits
\* The ASCII digits that write the 4-bit value n.
DigitsOf(n) == IF n < 10 THEN {48 + n} ELSE {87 + n, 55 + n}
\* hash is the value the hex text bytes writes.
IsDecodingOf(hash, bytes) ==
    /\ Len(hash) = HashBytes
    /\ Len(bytes) = 2 * Len(hash)
    /\ \A i \in 1..Len(hash) :
        /\ bytes[2 * i - 1] \in DigitsOf(hash[i] \div 16)
        /\ bytes[2 * i] \in DigitsOf(hash[i] % 16)

Enveloped == call.received /\ call.op \in EnvelopedOps

\* C1: a "blockhash" header that is present and exactly 64 bytes long but is
\* not valid hexadecimal makes extract_metadata, and the operation, return
\* an error; no Ok with a zero-filled or partially decoded hash.
C1_MalformedHexIsError ==
    (/\ Enveloped
     /\ call.header.present
     /\ Len(call.header.bytes) = HexLen
     /\ ~ValidHex(call.header.bytes))
    => (~call.meta.ok /\ ~call.result.ok)

\* C2: an enveloped operation whose response has no "blockhash" header, or
\* one whose length is not 64, returns the missing-metadata call error: no
\* QueryResponse envelope and no stream.
C2_MissingOrWrongLengthFails ==
    (Enveloped /\ (~call.header.present \/ Len(call.header.bytes) # HexLen))
    => (/\ ~call.meta.ok
        /\ ~call.result.ok
        /\ call.result.status = MissingMetadata
        /\ call.result.block_hash = NoHash
        /\ call.result.response = NoValue
        /\ call.stream = "none"
        /\ call.yielded = <<>>)

C2_Witness ==
    /\ Enveloped
    /\ call.op = "get_account_list"
    /\ call.header.present
    /\ Len(call.header.bytes) = HexLen - 1
    /\ ~call.result.ok

\* A message the server sent that the client could not decode.
DecodeErrorAt(k) == call.sent[k].ok /\ ~call.yielded[k].ok

\* C5 (as stated): a decoding failure of one streamed item leaves the items
\* yielded before it as they were, and its error is the last value of the
\* stream: nothing is yielded after a decode error.
C5_DecodeErrorIsTerminal ==
    call.op \in StreamOps =>
        /\ Len(call.yielded) = Len(call.sent)
        /\ \A k \in 1..Len(call.yielded) :
            /\ call.yielded[k] = stream_closure(call.op, call.sent[k])
            /\ DecodeErrorAt(k) => k = Len(call.yielded)

Pulled ==
    /\ call'.op = call.op
    /\ call.op \in StreamOps
    /\ Len(call'.sent) = Len(call.sent) + 1

\* C5 (amended): a decoding failure of one streamed item leaves the items
\* yielded before it as they were and is yielded in that item's place, as
\* an error status; it does not end the stream, which stays open for the
\* messages the server sends next.
C5_DecodeErrorInPlace ==
    [][Pulled =>
        /\ Len(call'.yielded) = Len(call.yielded) + 1
        /\ SubSeq(call'.yielded, 1, Len(call.yielded)) = call.yielded
        /\ LET m == call'.sent[Len(call'.sent)]
               y == call'.yielded[Len(call'.yielded)]
           IN  (m.ok /\ ~y.ok) =>
                    /\ y.status \in {DecodeFailure, MissingField}
                    /\ call'.stream = "open"]_vars

C5_Witness ==
    /\ call.op = "get_module_list"
    /\ Len(call.yielded) = 2
    /\ DecodeErrorAt(1)
    /\ call.yielded[2].ok

Decodable(op, m) ==
    /\ m.ok
    /\ IF op = "get_finalized_blocks"
       THEN m.v.hash.some /\ m.v.hash.v.wf /\ m.v.height.some
       ELSE m.v.wf
\* The domain value the wire message m stands for.
Expected(op, m) ==
    IF op = "get_finalized_blocks"
    THEN [type |-> "FinalizedBlockInfo",
          block_hash |-> [type |-> "BlockHash", id |-> m.v.hash.v.id],
          height |-> m.v.height.v.id]
    ELSE [type |-> DomainType(op), id |-> m.v.id]

\* C6: when the server's stream sends n decodable messages and then closes
\* cleanly, the client's stream has yielded exactly those n values, decoded,
\* in the server's order, and then ended; for get_ancestors n may be any
\* number up to `amount`, fewer is not an error.
C6_CleanStreamYieldsAll ==
    (/\ call.op \in StreamOps
     /\ call.stream = "done"
     /\ \A k \in 1..Len(call.sent) : Decodable(call.op, call.sent[k]))
    => (/\ call.result.ok
        /\ Len(call.yielded) = Len(call.sent)
        /\ \A k \in 1..Len(call.sent) :
            /\ call.yielded[k].ok
            /\ call.yielded[k].v = Expected(call.op, call.sent[k])
        /\ call.op = "get_ancestors" => Len(call.yielded) <= call.amount)

C6_Witness ==
    /\ call.op = "get_ancestors"
    /\ call.amount = MaxItems + 1
    /\ call.stream = "done"
    /\ Len(call.yielded) = 2
    /\ call.yielded[1].ok /\ call.yielded[2].ok
    /\ call.yielded[1].v.id = 2 /\ call.yielded[2].v.id = 1

\* C7: the block_hash of every successful QueryResponse is the 32-byte
\* value written by the "blockhash" header of that call's own response,
\* extracted once for the call.
C7_BlockHashIsOwnHeader ==
    (call.op \in EnvelopedOps /\ call.result.ok)
    => (/\ call.extracted = 1
        /\ call.header.present
        /\ IsDecodingOf(call.result.block_hash, call.header.bytes))

Submitted == submission_id # "none"
Succeeded == pc = "done" /\ err = "none"

\* C3: the poll loop ends with success at the first poll that returns
\* Finalized and reports that result's blocks; a poll that returns Received
\* or Committed is followed by another poll; once Finalized was observed no
\* further status query is made and the observed status stays as it is.
C3_StopsAtFirstFinalized ==
    /\ [](Succeeded =>
            /\ observed.tag = "Finalized"
            /\ printed = [line |-> "Submission is finalized in blocks",
                          blocks |-> observed.blocks])
    /\ [][/\ (pc = "status" /\ pc' # "status" /\ failedQueries' = failedQueries)
             => /\ observed'.tag \in {"Received", "Committed"} => pc' = "tick"
                /\ observed'.tag = "Finalized" => (pc' = "done" /\ err' = "none")
          /\ observed.tag = "Finalized"
             => /\ pc = "done" /\ pc' = "done"
                /\ observed' = observed
                /\ statusQueries' = statusQueries]_vars

C3_Witness ==
    /\ Succeeded
    /\ statusQueries >= 3
    /\ observed = Finalized({"blockA"})
    /\ srv # observed

\* C4: a failed status query ends the loop at once with that error: no poll
\* follows it, it is not retried, and the run does not report success.
C4_FailedQueryAborts ==
    /\ [](failedQueries > 0 =>
            (pc = "done" /\ err = ErrStatus /\ failedQueries = 1))
    /\ [][failedQueries > 0 =>
            (statusQueries' = statusQueries /\ pc' = pc /\ err' = err
             /\ observed' = observed)]_vars

C4_Witness ==
    /\ failedQueries = 1
    /\ statusQueries >= 2
    /\ observed.tag = "Committed"
    /\ pc = "done"

\* C8: when signer construction fails, the run ends with the invalid-keys
\* error and send_block_item, the sequence-number query and the status
\* query are never called.
C8_InvalidKeysFailFast ==
    (signer.built /\ ~signer.ok)
    => (/\ pc = "done"
        /\ err = ErrSigner
        /\ sends = 0
        /\ seqQueries = 0
        /\ statusQueries = 0
        /\ ~Submitted)

C8_Witness ==
    /\ signer.built /\ ~signer.ok
    /\ kps = <<0>>
    /\ summary.threshold = 2
    /\ pc = "done"

\* C9: the block item is submitted at most once; polling begins only after
\* the submission returned an id; a failed submission ends the run with an
\* error and no status query.
C9_SubmitOnceNoPartialSuccess ==
    /\ sends <= 1
    /\ pc \in {"tick", "status"} => (sends = 1 /\ Submitted)
    /\ statusQueries > 0 => (sends = 1 /\ Submitted)
    /\ (sends = 1 /\ ~Submitted) =>
            (pc = "done" /\ err = ErrSend /\ statusQueries = 0)

C9_Witness ==
    /\ sends = 1
    /\ ~Submitted
    /\ pc = "done"
    /\ err = ErrSend

\* C10: after a successful submission, if every status query succeeds and
\* the node reports Finalized from some point on, the loop eventually ends
\* with success; and the loop only ever ends without a failed query when a
\* query returned Finalized (there is no client-side timeout).
C10_TrackerLiveness ==
    /\ (<>[](srv.tag = "Finalized") /\ [](failedQueries = 0))
            => [](Submitted => <>Succeeded)
    /\ []((Submitted /\ pc = "done" /\ failedQueries = 0)
            => observed.tag = "Finalized")

C10_Witness ==
    /\ Succeeded
    /\ statusQueries >= 2
    /\ failedQueries = 0
    /\ observed.tag = "Finalized"

====
